---- MODULE Spec2Model ----
(***************************************************************************)
(* Sequence generation and reward shaping of dcnet_rl.py: the decode loop  *)
(* of DAE.forward, the loss mask of RewardCriterion.forward, the string    *)
(* conversion and pairing of get_self_critical_reward, and the beam search *)
(* of evaluate.  The neural network is abstracted to the tokens it selects *)
(* (every selection the code's torch.max / multinomial / topk can return). *)
(***************************************************************************)
EXTENDS Integers, Sequences, FiniteSets, TLC

(***************************************************************************)
(* Vocabulary (word_map).                                                  *)
(***************************************************************************)
PadId == 0
StartId == 1
EndId == 2
NumSpecial == 3
VocabSize == 5

Vocab == 0..(VocabSize - 1)
Words == NumSpecial..(VocabSize - 1)

(***************************************************************************)
(* DAE.forward                                                             *)
(***************************************************************************)
max_len == 18
BatchSize == 2

Rows == 1..BatchSize

VARIABLES
    fpc,          \* position in DAE.forward: "loop" or "done"
    timestep,     \* loop variable of the decode loop
    it,           \* token fed to the next timestep, one per row
    unfinished,   \* per-row flag
    seq,          \* generated tokens, BatchSize x max_len
    seqLogprobs,  \* BatchSize x max_len: 0 as allocated, -1 where the
                  \* log-probability of a selected token has been stored
    emitted       \* per row, the tokens the selection policy returned up to
                  \* and including the first <end>/<pad>

fvars == <<fpc, timestep, it, unfinished, seq, seqLogprobs, emitted>>

VARIABLES
    rpc,            \* "idle" before the batch, "done" after the loss call
    gen_result,     \* sampled rows (seq_gen)
    greedy_res,     \* greedy rows
    allcaps,        \* reference captions of the batch
    scorer,         \* which scoring function CiderD_scorer is
    ground_truth,   \* preprocess_gd(allcaps)
    res,            \* hypothesis strings handed to the scorer
    gts,            \* reference strings handed to the scorer
    rewards,        \* result of get_self_critical_reward
    mask            \* loss mask of RewardCriterion.forward

rvars == <<rpc, gen_result, greedy_res, allcaps, scorer, ground_truth, res, gts,
           rewards, mask>>

VARIABLES
    epc,                    \* position in evaluate: "loop", "emit" or "done"
    k,                      \* live beam width
    step,                   \* step counter of the beam loop
    infinite_pred,          \* the degenerate-result flag
    seqs,                   \* live hypotheses
    top_k_scores,           \* their cumulative scores
    k_prev_words,           \* their last words
    complete_seqs,          \* completed hypotheses
    complete_seqs_scores,   \* and their scores
    results,                \* captions emitted so far
    loader,                 \* image ids of the items, in loader order
    item_idx                \* position of the current item in the loader

evars == <<epc, k, step, infinite_pred, seqs, top_k_scores, k_prev_words,
           complete_seqs, complete_seqs_scores, results, loader, item_idx>>

VARIABLES
    tpc,            \* position in train: the statement to run next
    batch_no,       \* index i of the current batch
    training,       \* dae_ar.training, the mode of the model
    grad,           \* the .grad buffers: "none", "zero", "raw" or "clipped"
    params_version, \* number of optimizer steps applied to the parameters
    events          \* what has happened in the current batch, in order

tvars == <<tpc, batch_no, training, grad, params_version, events>>

vars == <<fvars, rvars, evars, tvars>>

\* The parts of the program a specification does not run stay parked.
ForwardOff ==
    /\ fpc = "off"
    /\ timestep = 0
    /\ it = <<>>
    /\ unfinished = <<>>
    /\ seq = <<>>
    /\ seqLogprobs = <<>>
    /\ emitted = <<>>

RewardOff ==
    /\ rpc = "off"
    /\ gen_result = <<>>
    /\ greedy_res = <<>>
    /\ allcaps = <<>>
    /\ scorer = "match"
    /\ ground_truth = <<>>
    /\ res = <<>>
    /\ gts = <<>>
    /\ rewards = <<>>
    /\ mask = <<>>

TrainOff ==
    /\ tpc = "off"
    /\ batch_no = 0
    /\ training = FALSE
    /\ grad = "none"
    /\ params_version = 0
    /\ events = <<>>

EvaluateOff ==
    /\ epc = "off"
    /\ k = 0
    /\ step = 0
    /\ infinite_pred = FALSE
    /\ seqs = <<>>
    /\ top_k_scores = <<>>
    /\ k_prev_words = <<>>
    /\ complete_seqs = <<>>
    /\ complete_seqs_scores = <<>>
    /\ results = <<>>
    /\ loader = <<>>
    /\ item_idx = 0

\* The tokens to which the decoder's distribution gives the policy a chance at
\* timestep t: the two terminators and one word of the vocabulary.
WordAt(t) == NumSpecial + (t % (VocabSize - NumSpecial))
Support(t) == {PadId, EndId, WordAt(t)}

\* it[it == word_map['<end>']] = 0
ReplaceEndNoop(tok) == tok
ReplaceEnd(tok) == IF tok = EndId THEN 0 ELSE tok

\* unfinished = it > 0 at timestep 0, unfinished * (it > 0) afterwards
UpdateUnfinishedLatest(t, unf, tok) == tok > 0
UpdateUnfinished(t, unf, tok) == IF t = 0 THEN tok > 0 ELSE unf /\ (tok > 0)

\* it = it * unfinished.type_as(it)
MaskFinishedNoop(tok, unf) == tok
MaskFinished(tok, unf) == tok * (IF unf THEN 1 ELSE 0)

\* unfinished.sum() == 0
SomeFinished(unf) == \E b \in Rows : ~unf[b]
AllFinished(unf) == \A b \in Rows : ~unf[b]

ForwardInit ==
    /\ fpc = "loop"
    /\ timestep = 0
    /\ it = [b \in Rows |-> StartId]
    /\ unfinished = [b \in Rows |-> TRUE]
    /\ seq = [b \in Rows |-> [t \in 1..max_len |-> 0]]
    /\ seqLogprobs = [b \in Rows |-> [t \in 1..max_len |-> 0]]
    /\ emitted = [b \in Rows |-> <<>>]

\* One iteration of the decode loop that selects and stores a token.
ForwardStep ==
    /\ fpc = "loop"
    /\ timestep < max_len
    /\ \E chosen \in [Rows -> Support(timestep)] :
         LET it1 == [b \in Rows |-> ReplaceEnd(chosen[b])]
             unf == [b \in Rows |-> UpdateUnfinished(timestep, unfinished[b], it1[b])]
             it2 == [b \in Rows |-> MaskFinished(it1[b], unf[b])]
             live == [b \in Rows |-> timestep = 0 \/ unfinished[b]]
         IN  /\ unfinished' = unf
             /\ it' = it2
             /\ seq' = [b \in Rows |-> [seq[b] EXCEPT ![timestep + 1] = it2[b]]]
             /\ seqLogprobs' = [b \in Rows |->
                                  [seqLogprobs[b] EXCEPT ![timestep + 1] = -1]]
             /\ emitted' = [b \in Rows |->
                              IF live[b] THEN Append(emitted[b], chosen[b])
                              ELSE emitted[b]]
             /\ IF AllFinished(unf)
                  THEN /\ fpc' = "done"
                       /\ timestep' = timestep
                  ELSE /\ fpc' = "loop"
                       /\ timestep' = timestep + 1
    /\ UNCHANGED <<rvars, evars, tvars>>

\* The iteration with timestep = max_len: computes the distribution and breaks.
ForwardLast ==
    /\ fpc = "loop"
    /\ timestep = max_len
    /\ fpc' = "done"
    /\ UNCHANGED <<timestep, it, unfinished, seq, seqLogprobs, emitted, rvars, evars,
                   tvars>>

ForwardNext == ForwardStep \/ ForwardLast

InitForward == ForwardInit /\ RewardOff /\ EvaluateOff /\ TrainOff

SpecForward == InitForward /\ [][ForwardNext]_vars

\* The loop is straight-line code: an iteration that can run does run.
SpecForwardLive == SpecForward /\ WF_vars(ForwardNext)

(***************************************************************************)
(* String conversion, reference preprocessing, self-critical reward and    *)
(* loss mask (the tail of one train batch, lines 480-482).                 *)
(***************************************************************************)
MaxHypLen == 2
MaxRefLen == 2
NumRefs == 1

Batch == 0..(BatchSize - 1)

\* str.strip(): no leading and no trailing blank
RECURSIVE LStrip(_)
LStrip(s) ==
    IF Len(s) > 0 /\ SubSeq(s, 1, 1) = " " THEN LStrip(SubSeq(s, 2, Len(s))) ELSE s

RECURSIVE RStrip(_)
RStrip(s) ==
    IF Len(s) > 0 /\ SubSeq(s, Len(s), Len(s)) = " "
      THEN RStrip(SubSeq(s, 1, Len(s) - 1))
      ELSE s

Strip(s) == LStrip(RStrip(s))

\* The loop of array_to_str from index i on, out being the string so far.
RECURSIVE ArrayToStrLoopExcl(_, _, _)
ArrayToStrLoopExcl(arr, i, out) ==
    IF i > Len(arr) \/ arr[i] = 0 THEN out
    ELSE ArrayToStrLoopExcl(arr, i + 1, out \o ToString(arr[i]) \o " ")

RECURSIVE ArrayToStrLoop(_, _, _)
ArrayToStrLoop(arr, i, out) ==
    IF i > Len(arr) THEN out
    ELSE LET out1 == out \o ToString(arr[i]) \o " "
         IN  IF arr[i] = 0 THEN out1 ELSE ArrayToStrLoop(arr, i + 1, out1)

array_to_str(arr) == Strip(ArrayToStrLoop(arr, 1, ""))

\* preprocess_gd, one caption: drop <start> and <pad>, then <end> becomes 0
KeepWord(w) == w \notin {StartId, PadId}
DropStartPad(c) == SelectSeq(c, KeepWord)

EndToZeroNoop(c) == c
EndToZero(c) == [n \in 1..Len(c) |-> IF c[n] # EndId THEN c[n] ELSE 0]

preprocess_gd(caps) ==
    [j \in DOMAIN caps |->
        [r \in DOMAIN caps[j] |-> EndToZero(DropStartPad(caps[j][r]))]]

\* RewardCriterion.forward: mask = (seq > 0), then a column of ones is put in
\* front of mask[:, :-1]
SeqMask(s) == [b \in DOMAIN s |-> [t \in 1..Len(s[b]) |-> IF s[b][t] > 0 THEN 1 ELSE 0]]

ShiftMaskNoLead(m) == [b \in DOMAIN m |-> <<0>> \o SubSeq(m[b], 1, Len(m[b]) - 1)]
ShiftMask(m) == [b \in DOMAIN m |-> <<1>> \o SubSeq(m[b], 1, Len(m[b]) - 1)]

CriterionMask(s) == ShiftMask(SeqMask(s))

\* The scorer: a pure function of the hypothesis string and the reference
\* strings.  Two such functions stand for CiderD_scorer.compute_score.
RECURSIVE SumLen(_, _)
SumLen(refs, j) == IF j > Len(refs) THEN 0 ELSE Len(refs[j]) + SumLen(refs, j + 1)

Scorers == {"match", "length"}
Score(kind, hyp, refs) ==
    IF kind = "match"
      THEN Cardinality({j \in 1..Len(refs) : refs[j] = hyp})
      ELSE 3 * Len(hyp) + SumLen(refs, 1)

\* res: hypotheses 0..B-1 are the sampled rows, B..2B-1 the greedy rows
ResOf(gen, greedy) ==
    LET B == Cardinality(DOMAIN gen)
    IN  [i \in 0..(2 * B - 1) |->
            IF i < B THEN <<array_to_str(gen[i])>>
                     ELSE <<array_to_str(greedy[i - B])>>]

GtsOf(gt) == [i \in DOMAIN gt |-> [j \in 1..Len(gt[i]) |-> array_to_str(gt[i][j])]]

\* gts = {i: gts[i % batch_size] for i in range(2 * batch_size)}
PairRefsShifted(g, B) == [i \in 0..(2 * B - 1) |-> g[(i + (i \div B)) % B]]
PairRefs(g, B) == [i \in 0..(2 * B - 1) |-> g[i % B]]

cider_weight == 1

\* scores[:batch_size] - scores[batch_size:]
AdvantageSwapped(cs, B) == [i \in 0..(B - 1) |-> cider_weight * cs[B + i] - cider_weight * cs[i]]
Advantage(cs, B) == [i \in 0..(B - 1) |-> cider_weight * cs[i] - cider_weight * cs[B + i]]

\* np.repeat(scores[:, np.newaxis], gen_result.shape[1], 1)
Repeat(sc, L) == [i \in DOMAIN sc |-> [t \in 1..L |-> sc[i]]]

get_self_critical_reward(gen, greedy, gt, kind) ==
    LET B   == Cardinality(DOMAIN gen)
        r   == ResOf(gen, greedy)
        g   == PairRefs(GtsOf(gt), B)
        cs  == [i \in 0..(2 * B - 1) |-> Score(kind, r[i][1], g[i])]
    IN  Repeat(Advantage(cs, B), Len(gen[0]))

\* Inputs of one batch: the rows DAE.forward returns under Support (words, then
\* zeros up to max_len, or a row that never ended) and reference captions
\* <start> w.. <end> <pad>..
WordSeqs(n) == UNION {[1..m -> Words] : m \in 0..n}
DecodedRow(n) == [t \in 1..max_len |-> IF t <= n THEN WordAt(t - 1) ELSE 0]
HypRows == {DecodedRow(n) : n \in 0..MaxHypLen} \cup {DecodedRow(max_len)}

CapLen == MaxRefLen + 2
PadTo(c, n) == c \o [t \in 1..(n - Len(c)) |-> PadId]
RefCaps == {PadTo(<<StartId>> \o w \o <<EndId>>, CapLen) : w \in WordSeqs(MaxRefLen)}

RewardInit ==
    /\ rpc = "idle"
    /\ gen_result = <<>>
    /\ greedy_res = <<>>
    /\ allcaps = <<>>
    /\ scorer = "match"
    /\ ground_truth = <<>>
    /\ res = <<>>
    /\ gts = <<>>
    /\ rewards = <<>>
    /\ mask = <<>>

\* Lines 480-482 of train for one batch: preprocess_gd, get_self_critical_reward
\* and the criterion, on any decoded rows and references.
TrainTail ==
    /\ rpc = "idle"
    /\ \E gen \in [Batch -> HypRows], greedy \in [Batch -> HypRows],
          caps \in [Batch -> [1..NumRefs -> RefCaps]], kind \in Scorers :
         LET gt == preprocess_gd(caps)
         IN  /\ gen_result' = gen
             /\ greedy_res' = greedy
             /\ allcaps' = caps
             /\ scorer' = kind
             /\ ground_truth' = gt
             /\ res' = ResOf(gen, greedy)
             /\ gts' = PairRefs(GtsOf(gt), BatchSize)
             /\ rewards' = get_self_critical_reward(gen, greedy, gt, kind)
             /\ mask' = CriterionMask(gen)
    /\ rpc' = "done"
    /\ UNCHANGED <<fvars, evars, tvars>>

InitReward == RewardInit /\ ForwardOff /\ EvaluateOff /\ TrainOff

SpecReward == InitReward /\ [][TrainTail]_vars

(***************************************************************************)
(* train: the statements of one batch, lines 474-486, batch after batch.   *)
(* DAE.forward is taken by the rows it returns.                            *)
(***************************************************************************)
NumBatches == 2

\* The statements of the loop body in program order.
TrainOrderStepFirst ==
    <<"zero_grad", "eval", "greedy", "train", "sample", "reward", "loss",
      "backward", "step", "clip", "stats">>
TrainOrder ==
    <<"zero_grad", "eval", "greedy", "train", "sample", "reward", "loss",
      "backward", "clip", "step", "stats">>

Following(p) ==
    TrainOrder[(CHOOSE n \in 1..Len(TrainOrder) : TrainOrder[n] = p) + 1]

\* What is recorded of a statement: its name, the mode of the model and whether
\* autograd is recording while it runs.
Event(name, no_grad) ==
    [ev |-> name, training |-> training, grad_enabled |-> ~no_grad]

BatchCaps == [Batch -> [1..NumRefs -> RefCaps]]

\* Line 461 and the first binding of the for loop of line 465.
TrainInit ==
    /\ tpc = "zero_grad"
    /\ batch_no = 0
    /\ training = TRUE
    /\ grad = "none"
    /\ params_version = 0
    /\ events = <<>>
    /\ rpc = "off"
    /\ gen_result = <<>>
    /\ greedy_res = <<>>
    /\ allcaps \in BatchCaps
    /\ scorer \in Scorers
    /\ ground_truth = <<>>
    /\ res = <<>>
    /\ gts = <<>>
    /\ rewards = <<>>
    /\ mask = <<>>

\* dae_ar_optimizer.zero_grad()
ZeroGrad ==
    /\ tpc = "zero_grad"
    /\ grad' = "zero"
    /\ events' = Append(events, Event("zero_grad", FALSE))
    /\ tpc' = Following(tpc)
    /\ UNCHANGED <<batch_no, training, params_version, fvars, rvars, evars>>

\* dae_ar.eval()
SetEval ==
    /\ tpc = "eval"
    /\ training' = FALSE
    /\ tpc' = Following(tpc)
    /\ UNCHANGED <<batch_no, grad, params_version, events, fvars, rvars, evars>>

\* with torch.no_grad(): greedy_res, _ = dae_ar(.., sample_max = True, ..)
GreedyDecode ==
    /\ tpc = "greedy"
    /\ greedy_res' \in [Batch -> HypRows]
    /\ events' = Append(events, Event("greedy", TRUE))
    /\ tpc' = Following(tpc)
    /\ UNCHANGED <<batch_no, training, grad, params_version, fvars, evars,
                   rpc, gen_result, allcaps, scorer, ground_truth, res, gts,
                   rewards, mask>>

\* dae_ar.train()
SetTrain ==
    /\ tpc = "train"
    /\ training' = TRUE
    /\ tpc' = Following(tpc)
    /\ UNCHANGED <<batch_no, grad, params_version, events, fvars, rvars, evars>>

\* seq_gen, seqLogprobs = dae_ar(.., sample_max = False, sample_rl = True)
SampleDecode ==
    /\ tpc = "sample"
    /\ gen_result' \in [Batch -> HypRows]
    /\ events' = Append(events, Event("sample", FALSE))
    /\ tpc' = Following(tpc)
    /\ UNCHANGED <<batch_no, training, grad, params_version, fvars, evars,
                   rpc, greedy_res, allcaps, scorer, ground_truth, res, gts,
                   rewards, mask>>

\* ground_truth = preprocess_gd(..); rewards = get_self_critical_reward(..)
ComputeReward ==
    /\ tpc = "reward"
    /\ LET gt == preprocess_gd(allcaps)
       IN  /\ ground_truth' = gt
           /\ res' = ResOf(gen_result, greedy_res)
           /\ gts' = PairRefs(GtsOf(gt), BatchSize)
           /\ rewards' = get_self_critical_reward(gen_result, greedy_res, gt, scorer)
    /\ events' = Append(events, Event("reward", FALSE))
    /\ tpc' = Following(tpc)
    /\ UNCHANGED <<batch_no, training, grad, params_version, fvars, evars,
                   rpc, gen_result, greedy_res, allcaps, scorer, mask>>

\* loss = criterion(seqLogprobs, seq_gen, rewards)
ComputeLoss ==
    /\ tpc = "loss"
    /\ mask' = CriterionMask(gen_result)
    /\ events' = Append(events, Event("loss", FALSE))
    /\ tpc' = Following(tpc)
    /\ UNCHANGED <<batch_no, training, grad, params_version, fvars, evars,
                   rpc, gen_result, greedy_res, allcaps, scorer, ground_truth,
                   res, gts, rewards>>

\* loss.backward()
Backward ==
    /\ tpc = "backward"
    /\ grad' = "raw"
    /\ events' = Append(events, Event("backward", FALSE))
    /\ tpc' = Following(tpc)
    /\ UNCHANGED <<batch_no, training, params_version, fvars, rvars, evars>>

\* torch.nn.utils.clip_grad_norm_(.., 0.25)
ClipGradNorm ==
    /\ tpc = "clip"
    /\ grad' = "clipped"
    /\ events' = Append(events, Event("clip", FALSE))
    /\ tpc' = Following(tpc)
    /\ UNCHANGED <<batch_no, training, params_version, fvars, rvars, evars>>

\* dae_ar_optimizer.step()
OptimizerStep ==
    /\ tpc = "step"
    /\ params_version' = params_version + 1
    /\ events' = Append(events, Event("step", FALSE))
    /\ tpc' = Following(tpc)
    /\ UNCHANGED <<batch_no, training, grad, fvars, rvars, evars>>

\* Lines 488-493 and the next binding of the for loop; the values of the batch
\* that is over are dead and dropped.
NextBatch ==
    /\ tpc = "stats"
    /\ IF batch_no + 1 < NumBatches
         THEN /\ batch_no' = batch_no + 1
              /\ events' = <<>>
              /\ allcaps' \in BatchCaps
              /\ gen_result' = <<>>
              /\ greedy_res' = <<>>
              /\ ground_truth' = <<>>
              /\ res' = <<>>
              /\ gts' = <<>>
              /\ rewards' = <<>>
              /\ mask' = <<>>
              /\ tpc' = "zero_grad"
         ELSE /\ tpc' = "end"
              /\ UNCHANGED <<batch_no, events, allcaps, gen_result, greedy_res,
                             ground_truth, res, gts, rewards, mask>>
    /\ UNCHANGED <<training, grad, params_version, rpc, scorer, fvars, evars>>

TrainNext ==
    \/ ZeroGrad
    \/ SetEval
    \/ GreedyDecode
    \/ SetTrain
    \/ SampleDecode
    \/ ComputeReward
    \/ ComputeLoss
    \/ Backward
    \/ ClipGradNorm
    \/ OptimizerStep
    \/ NextBatch

InitTrain == TrainInit /\ ForwardOff /\ EvaluateOff

SpecTrain == InitTrain /\ [][TrainNext]_vars

(***************************************************************************)
(* Properties of the decode loop, the string conversion, the reward and    *)
(* the loss mask.                                                          *)
(***************************************************************************)
Zeros(n) == [t \in 1..n |-> 0]

\* "w1 w2 .. wn": the ids of w separated by single blanks
RECURSIVE JoinIds(_)
JoinIds(w) ==
    IF Len(w) = 0 THEN ""
    ELSE IF Len(w) = 1 THEN ToString(w[1])
    ELSE ToString(w[1]) \o " " \o JoinIds(Tail(w))

\* index of the first 0 of arr, Len(arr) + 1 if there is none
FirstZero(arr) ==
    LET Z == {n \in 1..Len(arr) : arr[n] = 0}
    IN  IF Z = {} THEN Len(arr) + 1 ELSE CHOOSE n \in Z : \A m \in Z : n <= m

BeforeFirstZero(arr) == SubSeq(arr, 1, FirstZero(arr) - 1)
ThroughFirstZero(arr) ==
    SubSeq(arr, 1, IF FirstZero(arr) > Len(arr) THEN Len(arr) ELSE FirstZero(arr))

NonTerminators(w) == \A n \in 1..Len(w) : w[n] \notin {EndId, PadId}

Front(w) == SubSeq(w, 1, Len(w) - 1)

\* the policy of row b returned non-terminators and then <end>
EmittedThenEnd(b) ==
    /\ Len(emitted[b]) >= 1
    /\ emitted[b][Len(emitted[b])] = EndId
    /\ NonTerminators(Front(emitted[b]))

C1_NoResurrection ==
    \A b \in DOMAIN seq : \A t \in 1..max_len, u \in 1..max_len :
        (t < u /\ seq[b][t] = 0) => seq[b][u] = 0

C1_FlagStaysDown ==
    \A b \in DOMAIN unfinished :
        ~unfinished[b] =>
            /\ ~unfinished'[b]
            /\ (timestep < max_len /\ (timestep' # timestep \/ fpc' # fpc))
                   => seq'[b][timestep + 1] = 0

\* C1: every row of seq is monotone-terminated (a 0 is followed only by 0s, in
\* every state of the decode loop and in the returned seq); a row's unfinished
\* flag never goes from false back to true, and the token stored for a row whose
\* flag is false is 0 whatever the policy selected.
C1_MonotoneTermination == []C1_NoResurrection /\ [][C1_FlagStaysDown]_vars

\* C1 witness: a row ended after one word and stayed 0 while another row went
\* on for at least four tokens.
C1_Witness ==
    /\ fpc = "done"
    /\ \E b \in Rows, c \in Rows :
         /\ seq[b][1] # 0 /\ seq[b][2] = 0
         /\ seq[c][4] # 0

C2_MaskShift ==
    /\ rpc = "done" =>
         \A b \in DOMAIN gen_result :
             /\ Len(mask[b]) = Len(gen_result[b])
             /\ mask[b][1] = 1
             /\ \A t \in 2..Len(gen_result[b]) :
                    /\ mask[b][t] \in {0, 1}
                    /\ mask[b][t] = 1 <=> gen_result[b][t - 1] > 0
    /\ CriterionMask(<< <<5, 7, 0, 0>> >>) = << <<1, 1, 1, 0>> >>

\* C2 witness: the mask of a batch with a two-word row and a row that never ended.
C2_Witness ==
    /\ rpc = "done"
    /\ \E b \in Batch, c \in Batch :
         /\ gen_result[b] = DecodedRow(2)
         /\ SubSeq(mask[b], 1, 4) = <<1, 1, 1, 0>>
         /\ gen_result[c] = DecodedRow(max_len)

RefStrings(i) == [j \in 1..Len(ground_truth[i]) |-> array_to_str(ground_truth[i][j])]

\* C3: the scorer gets 2B hypotheses, hypothesis i (sampled) and B+i (greedy)
\* both with the references of row i, and rewards[i][t] is
\* score(sampled i, refs i) - score(greedy i, refs i) in each of the L columns.
C3_RewardPairing ==
    rpc = "done" =>
        /\ DOMAIN res = 0..(2 * BatchSize - 1)
        /\ DOMAIN gts = 0..(2 * BatchSize - 1)
        /\ DOMAIN rewards = Batch
        /\ \A i \in Batch :
             /\ res[i] = <<array_to_str(gen_result[i])>>
             /\ res[BatchSize + i] = <<array_to_str(greedy_res[i])>>
             /\ gts[i] = RefStrings(i)
             /\ gts[BatchSize + i] = RefStrings(i)
             /\ DOMAIN rewards[i] = 1..max_len
             /\ \A t \in 1..max_len :
                    rewards[i][t] =
                        Score(scorer, array_to_str(gen_result[i]), RefStrings(i))
                        - Score(scorer, array_to_str(greedy_res[i]), RefStrings(i))

\* C3 witness: rows with different references and different non-zero rewards.
C3_Witness ==
    /\ rpc = "done"
    /\ gts[0] # gts[1]
    /\ gen_result[0] # greedy_res[0]
    /\ rewards[0][1] > 0
    /\ rewards[1][max_len] < 0

\* C4: when the sampled batch equals the greedy batch, every reward is 0.
C4_RewardSymmetry ==
    (rpc = "done" /\ gen_result = greedy_res) =>
        \A i \in Batch : \A t \in 1..max_len : rewards[i][t] = 0

\* C4 witness: equal batches whose rows score above 0 against differing references.
C4_Witness ==
    /\ rpc = "done"
    /\ gen_result = greedy_res
    /\ gts[0] # gts[1]
    /\ Score(scorer, res[0][1], gts[0]) > 0
    /\ Score(scorer, res[0][1], gts[0]) # Score(scorer, res[0][1], gts[1])

\* the arrays array_to_str is applied to in one batch, each with its string
Rendered ==
    {<<gen_result[i], res[i][1]>> : i \in Batch}
    \cup {<<greedy_res[i], res[BatchSize + i][1]>> : i \in Batch}
    \cup UNION {{<<ground_truth[i][j], gts[i][j]>> : j \in 1..Len(ground_truth[i])} :
                i \in Batch}

IsReference(c) ==
    \E n \in 0..(Len(c) - 2) :
        /\ c[1] = StartId
        /\ \A m \in 2..(n + 1) : c[m] \in Words
        /\ c[n + 2] = EndId
        /\ \A m \in (n + 3)..Len(c) : c[m] = PadId

RefWords(c) == SelectSeq(c, LAMBDA w : w \in Words)

KeptIdx(c) == {m \in 1..Len(c) : c[m] \notin {StartId, PadId}}
Rank(S, m) == Cardinality({x \in S : x <= m})

\* C7: preprocess_gd keeps, in order, the ids that are neither <start> nor <pad>
\* and writes 0 for <end>; for a reference <start> w1..wn <end> <pad>* the
\* reference string is "w1 .. wn 0", the string of the decoded row w1..wn 0 0 ..
C7_SameAlphabet ==
    rpc = "done" =>
        \A i \in Batch : \A r \in 1..Len(allcaps[i]) :
            LET c == allcaps[i][r]
                g == ground_truth[i][r]
            IN  /\ Len(g) = Cardinality(KeptIdx(c))
                /\ \A m \in KeptIdx(c) :
                       g[Rank(KeptIdx(c), m)] = IF c[m] = EndId THEN 0 ELSE c[m]
                /\ IsReference(c) =>
                       /\ gts[i][r] = JoinIds(RefWords(c) \o <<0>>)
                       /\ \A h \in 0..(2 * BatchSize - 1) :
                              LET row == IF h < BatchSize THEN gen_result[h]
                                         ELSE greedy_res[h - BatchSize]
                              IN  (/\ Len(RefWords(c)) < Len(row)
                                   /\ row = RefWords(c)
                                            \o Zeros(Len(row) - Len(RefWords(c))))
                                  => res[h][1] = gts[i][r]

\* C7 witness: the reference <start> 3 4 <end> next to the decoded row 3 4 0 ..
C7_Witness ==
    /\ rpc = "done"
    /\ \E i \in Batch, h \in Batch :
         /\ allcaps[i][1] = <<StartId, 3, 4, EndId>>
         /\ gen_result[h] = DecodedRow(2)
         /\ res[h][1] = gts[i][1]

(***************************************************************************)
(* evaluate: beam search over one input and the caption it emits.          *)
(***************************************************************************)
beam_size == 3
StepCap == 50
TruncLen == 18
MaxCost == 1

vocab_size == VocabSize

\* The words the decoder scores high enough to enter the top k: at step 1 any
\* word but <start>, later one word of the vocabulary and, in the first
\* EndWindow steps and from the step cap on, <end>.
EndWindow == 2
EndSteps == 1..EndWindow \cup {s \in 1..(StepCap + 1) : s >= StepCap}
BeamSupport(s) ==
    IF s = 1 THEN Vocab \ {StartId}
    ELSE IF s \in EndSteps THEN {EndId, WordAt(s)}
    ELSE {WordAt(s)}

\* Flattened indices the top k is taken from: scores[0] at step 1, scores.view(-1)
\* afterwards.  prev_word_inds = top_k_words / vocab_size is the integer quotient
\* (division of LongTensors in the torch release the program is written for).
FlatIndicesAllRows(s, kk) ==
    {p * vocab_size + w : p \in 0..(kk - 1), w \in BeamSupport(s)}

FlatIndices(s, kk) ==
    {p * vocab_size + w : p \in 0..((IF s = 1 THEN 1 ELSE kk) - 1), w \in BeamSupport(s)}

\* Cumulative scores: log-probabilities are not positive, so a continuation
\* scores at most what the hypothesis it extends scores.
ScoreRange == (0 - MaxCost)..0

\* topk(k, 0, True, True): k distinct indices, in order of decreasing score.
TopK(s, kk, scores) ==
    {sel \in [1..kk -> [flat : FlatIndices(s, kk), score : ScoreRange]] :
        /\ \A a \in 1..kk, b \in 1..kk : a # b => sel[a].flat # sel[b].flat
        /\ \A a \in 1..kk : sel[a].score <= scores[(sel[a].flat \div vocab_size) + 1]
        /\ \A a \in 1..(kk - 1) : sel[a].score >= sel[a + 1].score}

\* elements of a sequence at the given (1-based, ascending) indices
RECURSIVE Pick(_, _)
Pick(sq, inds) ==
    IF Len(inds) = 0 THEN <<>> ELSE <<sq[Head(inds)]>> \o Pick(sq, Tail(inds))

\* argmax as complete_seqs_scores.index(max(complete_seqs_scores)): first maximum
IndexOfMax(scores) ==
    CHOOSE n \in 1..Len(scores) :
        /\ \A m \in 1..Len(scores) : scores[m] <= scores[n]
        /\ \A m \in 1..(n - 1) : scores[m] < scores[n]

Sentence(sq) == SelectSeq(sq, LAMBDA w : w \notin {StartId, EndId, PadId})

\* Loaders of n items: every order of n distinct image ids.
Loaders(n) ==
    {ids \in [1..n -> 1..n] : \A a, b \in 1..n : ids[a] = ids[b] => a = b}

\* Lines 500-537 for a loader of n items: the empty result list and the beam of
\* the first item.
EvaluateStart(n) ==
    /\ epc = "loop"
    /\ k = beam_size
    /\ step = 1
    /\ infinite_pred = FALSE
    /\ seqs = [m \in 1..beam_size |-> <<StartId>>]
    /\ top_k_scores = [m \in 1..beam_size |-> 0]
    /\ k_prev_words = [m \in 1..beam_size |-> StartId]
    /\ complete_seqs = <<>>
    /\ complete_seqs_scores = <<>>
    /\ results = <<>>
    /\ loader \in Loaders(n)
    /\ item_idx = 1

EvaluateInit == EvaluateStart(1)

\* How many of the selected continuations leave the live beam.
CompleteIndsFirst(next_word_inds) ==
    LET E == {n \in 1..Len(next_word_inds) : next_word_inds[n] = EndId}
    IN  IF E = {} THEN <<>> ELSE <<CHOOSE n \in E : \A m \in E : n <= m>>

CompleteInds(next_word_inds) ==
    SelectSeq([n \in 1..Len(next_word_inds) |-> n], LAMBDA n : next_word_inds[n] = EndId)

\* and those that stay in it
IncompleteInds(next_word_inds) ==
    SelectSeq([n \in 1..Len(next_word_inds) |-> n], LAMBDA n : next_word_inds[n] # EndId)

\* k -= len(complete_inds)
ReduceBeamForgotten(kk, complete_inds) == kk
ReduceBeam(kk, complete_inds) == kk - Len(complete_inds)

\* if step > 50
CapReachedEarly(s) == s >= StepCap
CapReached(s) == s > StepCap

\* One iteration of the while loop.
BeamStep ==
    /\ epc = "loop"
    /\ \E sel \in TopK(step, k, top_k_scores) :
         LET prev_word_inds == [n \in 1..k |-> sel[n].flat \div vocab_size]
             next_word_inds == [n \in 1..k |-> sel[n].flat % vocab_size]
             scores1 == [n \in 1..k |-> sel[n].score]
             seqs1 == [n \in 1..k |-> Append(seqs[prev_word_inds[n] + 1], next_word_inds[n])]
             complete_inds == CompleteInds(next_word_inds)
             incomplete_inds == IncompleteInds(next_word_inds)
             k1 == ReduceBeam(k, complete_inds)
         IN  /\ complete_seqs' = complete_seqs \o Pick(seqs1, complete_inds)
             /\ complete_seqs_scores' = complete_seqs_scores \o Pick(scores1, complete_inds)
             /\ k' = k1
             /\ IF k1 = 0
                  THEN /\ seqs' = seqs1
                       /\ top_k_scores' = scores1
                       /\ UNCHANGED <<k_prev_words, step, infinite_pred>>
                       /\ epc' = "emit"
                  ELSE /\ seqs' = Pick(seqs1, incomplete_inds)
                       /\ top_k_scores' = Pick(scores1, incomplete_inds)
                       /\ k_prev_words' = Pick(next_word_inds, incomplete_inds)
                       /\ IF CapReached(step)
                            THEN /\ infinite_pred' = TRUE
                                 /\ step' = step
                                 /\ epc' = "emit"
                            ELSE /\ infinite_pred' = infinite_pred
                                 /\ step' = step + 1
                                 /\ epc' = "loop"
    /\ UNCHANGED <<results, loader, item_idx, fvars, rvars, tvars>>

\* item_dict = {"image_id": ..., "caption": sentence}
ItemDictOfPosition(id, sentence) == [image_id |-> 1, caption |-> sentence]
ItemDict(id, sentence) == [image_id |-> id, caption |-> sentence]

\* Lines 599-610: pick the hypothesis, build the sentence, append the result.
Emit ==
    /\ epc = "emit"
    /\ LET sq == IF ~infinite_pred
                   THEN complete_seqs[IndexOfMax(complete_seqs_scores)]
                   ELSE SubSeq(seqs[1], 1, IF Len(seqs[1]) < TruncLen THEN Len(seqs[1]) ELSE TruncLen)
       IN  results' = Append(results, ItemDict(loader[item_idx], Sentence(sq)))
    /\ epc' = IF item_idx < Len(loader) THEN "next" ELSE "done"
    /\ UNCHANGED <<k, step, infinite_pred, seqs, top_k_scores, k_prev_words,
                   complete_seqs, complete_seqs_scores, loader, item_idx,
                   fvars, rvars, tvars>>

\* Lines 504-537: the for loop takes the next item and starts its beam afresh.
NextItem ==
    /\ epc = "next"
    /\ item_idx' = item_idx + 1
    /\ k' = beam_size
    /\ step' = 1
    /\ infinite_pred' = FALSE
    /\ seqs' = [m \in 1..beam_size |-> <<StartId>>]
    /\ top_k_scores' = [m \in 1..beam_size |-> 0]
    /\ k_prev_words' = [m \in 1..beam_size |-> StartId]
    /\ complete_seqs' = <<>>
    /\ complete_seqs_scores' = <<>>
    /\ epc' = "loop"
    /\ UNCHANGED <<results, loader, fvars, rvars, tvars>>

EvaluateNext == BeamStep \/ Emit

InitEvaluate == EvaluateInit /\ ForwardOff /\ RewardOff /\ TrainOff

SpecEvaluate == InitEvaluate /\ [][EvaluateNext]_vars

\* evaluate over a loader of several items
NumItems == 2

EvaluateLoopInit == EvaluateStart(NumItems)

EvaluateLoopNext == BeamStep \/ Emit \/ NextItem

InitEvaluateLoop == EvaluateLoopInit /\ ForwardOff /\ RewardOff /\ TrainOff

SpecEvaluateLoop == InitEvaluateLoop /\ [][EvaluateLoopNext]_vars

(***************************************************************************)
(* Properties of the beam search.                                          *)
(***************************************************************************)
Last(sq) == sq[Len(sq)]

C8_Count ==
    /\ k = 0 <=> Len(complete_seqs) = beam_size
    /\ k = 0 => epc # "loop"
    /\ Len(complete_seqs_scores) = Len(complete_seqs)
    /\ \A n \in 1..Len(complete_seqs) : Last(complete_seqs[n]) = EndId

C8_Shrink ==
    epc = "loop" =>
        LET done == Len(complete_seqs') - Len(complete_seqs)
            chose_end == Cardinality({n \in 1..Len(seqs') : Last(seqs'[n]) = EndId})
        IN  /\ k' <= k
            /\ done >= 0
            /\ k' = k - done
            /\ SubSeq(complete_seqs', 1, Len(complete_seqs)) = complete_seqs
            /\ SubSeq(complete_seqs_scores', 1, Len(complete_seqs)) = complete_seqs_scores
            /\ k' > 0 => (Len(seqs') = k' /\ chose_end = 0)
            /\ k' = 0 => (Len(seqs') = k /\ chose_end = done /\ epc' # "loop")
            /\ \A n \in 1..Len(seqs') : Len(seqs'[n]) = step + 1

\* C8: from one step of the beam loop to the next k does not grow; it shrinks by
\* the number of continuations that selected <end>, which leave the live beam
\* and are stored with their scores; k is 0 exactly when beam_size hypotheses
\* have completed, and then the loop has exited.
C8_BeamShrinks == []C8_Count /\ [][C8_Shrink]_vars

\* C8 witness: two hypotheses completed in the same step and one is still live.
C8_Witness ==
    /\ epc = "loop"
    /\ k = 1
    /\ Len(complete_seqs) = 2
    /\ Len(complete_seqs[1]) = Len(complete_seqs[2])

CompletedAtStep(s) == {n \in 1..Len(complete_seqs) : Len(complete_seqs[n]) = s + 1}

\* C9 as stated: once <end> is selected at step 1, all three hypotheses have
\* completed at step 1 and the loop has exited at step 1.
C9_AllCompleteAtStepOne ==
    (epc \in {"loop", "emit", "done"} /\ CompletedAtStep(1) # {}) =>
        /\ Cardinality(CompletedAtStep(1)) = 3
        /\ k = 0
        /\ step = 1
        /\ epc # "loop"

\* C9: with beam size 3 at most one hypothesis completes at step 1 (the top 3
\* of the single expanded row are distinct words), so k is 2 or 3 after the first
\* iteration and the loop never exits at step 1; it exits at step 2 exactly when
\* the hypotheses left (two, when <end> was selected at step 1) complete there.
C9_OneCompletesAtStepOne ==
    epc \in {"loop", "emit", "done"} =>
        /\ Cardinality(CompletedAtStep(1)) <= 1
        /\ step = 1 => (epc = "loop" /\ k = 3 /\ complete_seqs = <<>>)
        /\ (step = 2 /\ epc = "loop") => k = 3 - Cardinality(CompletedAtStep(1))
        /\ (step = 2 /\ epc # "loop") =>
               (/\ k = 0
                /\ ~infinite_pred
                /\ Cardinality(CompletedAtStep(2)) = 3 - Cardinality(CompletedAtStep(1)))

\* C9 witness: <end> selected wherever it can be: one completion at step 1, two
\* at step 2, where the loop exits.
C9_Witness ==
    /\ epc = "emit"
    /\ step = 2
    /\ k = 0
    /\ Cardinality(CompletedAtStep(1)) = 1
    /\ Cardinality(CompletedAtStep(2)) = 2

\* C10: while no continuation selected <end>, the loop does not exit at a step
\* up to 50; it exits in the iteration with step = 51, with infinite_pred set.
C10_StepCap ==
    (epc \in {"loop", "emit", "done"} /\ complete_seqs = <<>>) =>
        /\ step <= 51
        /\ epc = "loop" => ~infinite_pred
        /\ epc # "loop" => (step = 51 /\ step = StepCap + 1 /\ infinite_pred /\ k = beam_size)

\* C10 witness: the loop left at step 51 without any completed hypothesis.
C10_Witness ==
    /\ epc = "emit"
    /\ complete_seqs = <<>>
    /\ step = 51
    /\ infinite_pred

\* C11: the degenerate fallback is taken only when no hypothesis has completed;
\* whenever a hypothesis completed, the emitted caption is the sentence of the
\* completed hypothesis with the highest score.
C11_FallbackOnlyWithoutCompleted ==
    /\ (epc \in {"emit", "done"} /\ infinite_pred) => complete_seqs = <<>>
    /\ (epc = "done" /\ complete_seqs # <<>>) =>
           results[Len(results)].caption = Sentence(complete_seqs[IndexOfMax(complete_seqs_scores)])

\* C12: every item of the loader gets exactly one result, in loader order; a
\* runaway beam search yields a degenerate caption and the loop goes on to the
\* next item, so that the results are as many as the inputs when the loop ends.
C12_ResultsFollowItems ==
    /\ Len(results) = IF epc \in {"next", "done"} THEN item_idx ELSE item_idx - 1
    /\ \A n \in 1..Len(results) : results[n].image_id = loader[n]

C12_LoopGoesOn ==
    [][/\ epc = "emit" => Len(results') = Len(results) + 1
       /\ (epc = "emit" /\ item_idx < Len(loader)) => epc' = "next"
       /\ epc # "emit" => results' = results]_vars

C12_AllItemsAnswered ==
    epc = "done" => Len(results) = Len(loader)

C12_OneResultPerItem ==
    /\ []C12_ResultsFollowItems
    /\ C12_LoopGoesOn
    /\ []C12_AllItemsAnswered

\* a runaway first item, and yet both items answered
C12_Witness ==
    /\ epc = "done"
    /\ Len(loader) = NumItems
    /\ Len(results) = NumItems
    /\ Len(results[1].caption) >= TruncLen - 1
    /\ loader[1] > loader[2]

\* C13: the decode loop terminates within max_len + 1 iterations, the last of
\* which stores nothing, so a row holds at most max_len tokens; it leaves early
\* at the first timestep below max_len at which every row is finished, runs no
\* iteration after that, and never leaves early with a row unfinished.
Stored(b) == Cardinality({t \in 1..max_len : seqLogprobs[b][t] # 0})

C13_Iterations ==
    /\ timestep \in 0..max_len
    /\ \A b \in Rows :
         /\ Stored(b) <= max_len
         /\ Stored(b) = IF fpc = "done" /\ timestep < max_len
                          THEN timestep + 1 ELSE timestep
         /\ \A t \in 1..max_len : seq[b][t] # 0 => seqLogprobs[b][t] # 0

C13_EarlyExit ==
    /\ (fpc = "loop" /\ timestep > 0) => \E b \in Rows : unfinished[b]
    /\ (fpc = "done" /\ timestep < max_len) => \A b \in Rows : ~unfinished[b]
    /\ (fpc = "done" /\ timestep = max_len) => \E b \in Rows : unfinished[b]

C13_LastStoresNothing ==
    [][(fpc = "loop" /\ timestep = max_len) =>
           (seq' = seq /\ seqLogprobs' = seqLogprobs /\ fpc' = "done")]_vars

C13_Terminates ==
    /\ []C13_Iterations
    /\ []C13_EarlyExit
    /\ C13_LastStoresNothing
    /\ <>(fpc = "done")

\* all max_len + 1 iterations ran: one row stopped on the way, the other never
C13_Witness ==
    /\ fpc = "done"
    /\ timestep = max_len
    /\ \E b \in Rows : ~unfinished[b] /\ seq[b][1] # 0
    /\ \E b \in Rows : unfinished[b] /\ Stored(b) = max_len

\* C14: in every batch the parameters are changed by exactly one optimizer
\* step and the events come in the order zero_grad, greedy decode (eval mode,
\* no gradient), sampled decode (train mode), reward, loss, backward, clipping,
\* optimizer step; no step precedes the clipping of its batch.
BatchEvents ==
    <<"zero_grad", "greedy", "sample", "reward", "loss", "backward", "clip", "step">>

C14_EventOrder ==
    /\ Len(events) <= Len(BatchEvents)
    /\ \A n \in 1..Len(events) : events[n].ev = BatchEvents[n]
    /\ tpc \in {"stats", "end"} => Len(events) = Len(BatchEvents)

C14_Modes ==
    \A n \in 1..Len(events) :
        /\ events[n].ev = "greedy" =>
               ~events[n].training /\ ~events[n].grad_enabled
        /\ events[n].ev = "sample" =>
               events[n].training /\ events[n].grad_enabled

C14_OneStepPerBatch ==
    params_version = batch_no + (IF tpc \in {"stats", "end"} THEN 1 ELSE 0)

C14_StepAfterClip ==
    [][params_version' # params_version =>
           (params_version' = params_version + 1 /\ grad = "clipped")]_vars

C14_BatchProtocol ==
    /\ []C14_EventOrder
    /\ []C14_Modes
    /\ []C14_OneStepPerBatch
    /\ C14_StepAfterClip

\* the last batch of several is over
C14_Witness ==
    /\ tpc = "end"
    /\ batch_no = NumBatches - 1
    /\ batch_no > 0
    /\ params_version = NumBatches
    /\ Len(events) = Len(BatchEvents)
    /\ gen_result # greedy_res

\* C15: after every step of the beam search k + len(complete_seqs) = beam_size
\* and the two completed lists are equally long; so an exit with k = 0 that is
\* not flagged infinite leaves exactly beam_size completed hypotheses, at least
\* one, and the selection of the best of them is defined.
C15_Conservation ==
    epc \in {"loop", "emit", "next", "done"} =>
        /\ k + Len(complete_seqs) = beam_size
        /\ Len(complete_seqs) = Len(complete_seqs_scores)
        /\ k >= 0

C15_SelectionDefined ==
    (epc = "emit" /\ ~infinite_pred) =>
        /\ k = 0
        /\ Len(complete_seqs) = beam_size
        /\ complete_seqs # <<>>
        /\ IndexOfMax(complete_seqs_scores) \in 1..Len(complete_seqs)
        /\ \A n \in 1..Len(complete_seqs_scores) :
               complete_seqs_scores[n] <=
                   complete_seqs_scores[IndexOfMax(complete_seqs_scores)]

C15_BeamInvariant == C15_Conservation /\ C15_SelectionDefined

\* the beam emptied over several steps and the best hypothesis is not the first
C15_Witness ==
    /\ epc = "emit"
    /\ ~infinite_pred
    /\ k = 0
    /\ step > 2
    /\ Len(complete_seqs) = beam_size
    /\ IndexOfMax(complete_seqs_scores) > 1

\* C16: the shifted loss mask of any row DAE.forward returns is a run of ones
\* followed by zeros, min(n + 1, max_len) ones for a row of n non-zero tokens:
\* a one exactly at the timesteps the row entered unfinished; so the masks of a
\* batch sum to at least the batch size and the loss never divides by zero.
NonZeros(row) == Cardinality({t \in 1..Len(row) : row[t] # 0})

MinOf(a, b) == IF a < b THEN a ELSE b

C16_LossMask ==
    fpc = "done" =>
        LET m == CriterionMask(seq)
        IN  /\ \A b \in Rows :
                 LET ones == MinOf(NonZeros(seq[b]) + 1, max_len)
                 IN  /\ Len(m[b]) = max_len
                     /\ \A t \in 1..max_len : m[b][t] = IF t <= ones THEN 1 ELSE 0
                     /\ ones = Len(emitted[b])
            /\ SumLen([b \in Rows |-> SelectSeq(m[b], LAMBDA x : x = 1)], 1) >= BatchSize
            /\ BatchSize >= 1

\* one row ended on <end> before the other, which ran to the last column
C16_Witness ==
    /\ fpc = "done"
    /\ \E b \in Rows : NonZeros(seq[b]) \in 1..(max_len - 2)
    /\ \E b \in Rows : NonZeros(seq[b]) = max_len

====
